---- MODULE Spec2Model ----
(***************************************************************************)
(* Model of kineticstoolkit_cycles.detect_phase                            *)
(* (src/kineticstoolkit_cycles/__init__.py).                               *)
(*                                                                         *)
(* A TimeSeries is modelled by its time axis, its data dictionary and its  *)
(* event list.  Sample indices are 1-based here: sample i of the model is  *)
(* index i-1 of the numpy arrays, so "index 0" is sample 1 and "index N-1" *)
(* is sample N.  Times and min_time are integers in one common time unit;  *)
(* the time axis is uniformly sampled, time[i] = (i-1) * period, so that   *)
(* sample_rate = 1 / period and                                            *)
(*     plateau_size >= min_time * sample_rate                              *)
(* is  plateau_size * period >= min_time  (exact arithmetic).              *)
(* A float sample is a record: NaN, or a number.  A series has at least   *)
(* three samples.  The variables before, last, prior and same_args record  *)
(* the history of the calls: the events before the last call, its          *)
(* arguments and the edges find_peaks returned, the events the series was  *)
(* built with, and whether the last two calls had the same arguments.      *)
(***************************************************************************)
EXTENDS Integers, Sequences, FiniteSets

VARIABLES time, data, events, before, last, calls_left, prior, same_args

vars == <<time, data, events, before, last, calls_left, prior, same_args>>

(* ------------------------------ bounds --------------------------------- *)

MaxLen == 5

MaxCalls == 2

Periods == {1, 2}

MinTimes == {-1, 0, 2}

(* ------------------------------ floats --------------------------------- *)

NaN == [nan |-> TRUE, val |-> 0]

Num(v) == [nan |-> FALSE, val |-> v]

Values == {Num(0), Num(1), NaN}

Tresholds == {Num(0), Num(1)}

\* numpy ">" on float64: any comparison with NaN is False
Gt(x, y) == ~x.nan /\ ~y.nan /\ x.val > y.val

\* numpy "<=" on float64: any comparison with NaN is False
Le(x, y) == ~x.nan /\ ~y.nan /\ x.val <= y.val

(* --------------------------- TimeSeries -------------------------------- *)

TimeAxis(n, period) == [i \in 1..n |-> (i - 1) * period]

\* ts.get_sample_rate() of a uniformly sampled series is 1 / GetPeriod(t)
GetPeriod(t) == t[2] - t[1]

Event(t, name) == [time |-> t, name |-> name]

add_event_unique(evts, t, name) ==
    IF \E i \in DOMAIN evts : evts[i] = Event(t, name) THEN evts
    ELSE Append(evts, Event(t, name))

\* ts.add_event(time, name, in_place=True): append, duplicates are kept
add_event(evts, t, name) == Append(evts, Event(t, name))

RECURSIVE add_events(_, _, _, _)
\* the loops "for i in edges: ts.add_event(ts.time[i], name, in_place=True)"
add_events(evts, t, edges, name) ==
    IF edges = <<>> THEN evts
    ELSE add_events(add_event(evts, t[Head(edges)], name), t, Tail(edges), name)

InsertByTimeFront(sorted, e) == <<e>> \o sorted

RECURSIVE InsertByTime(_, _)
\* insert e after every element whose time is <= e.time (keeps the sort stable)
InsertByTime(sorted, e) ==
    IF sorted = <<>> THEN <<e>>
    ELSE IF Head(sorted).time <= e.time
         THEN <<Head(sorted)>> \o InsertByTime(Tail(sorted), e)
         ELSE <<e>> \o sorted

sort_events_unsorted(evts) == evts

RECURSIVE sort_events(_)
\* ts.sort_events(in_place=True): stable sort of the events by time
sort_events(evts) ==
    IF evts = <<>> THEN <<>>
    ELSE InsertByTime(sort_events(SubSeq(evts, 1, Len(evts) - 1)), evts[Len(evts)])

(* ------------------------ scipy.signal.find_peaks ---------------------- *)

RECURSIVE Ahead(_, _, _)
\* inner loop of _local_maxima_1d: advance while the plateau continues
Ahead(x, i, i_ahead) ==
    IF i_ahead < Len(x) /\ x[i_ahead] = x[i] THEN Ahead(x, i, i_ahead + 1)
    ELSE i_ahead

RECURSIVE LocalMaximaExclusive(_, _)
LocalMaximaExclusive(x, i) ==
    IF ~(i < Len(x)) THEN <<>>
    ELSE IF x[i - 1] < x[i]
         THEN LET i_ahead == Ahead(x, i, i + 1)
              IN  IF x[i_ahead] < x[i]
                  THEN <<(<<i, i_ahead>>)>> \o LocalMaximaExclusive(x, i_ahead + 1)
                  ELSE LocalMaximaExclusive(x, i + 1)
         ELSE LocalMaximaExclusive(x, i + 1)

RECURSIVE LocalMaxima(_, _)
\* _local_maxima_1d: <<left_edge, right_edge>> of every local maximum,
\* scanning from sample i; the first and the last sample are never a maximum
LocalMaxima(x, i) ==
    IF ~(i < Len(x)) THEN <<>>
    ELSE IF x[i - 1] < x[i]
         THEN LET i_ahead == Ahead(x, i, i + 1)
              IN  IF x[i_ahead] < x[i]
                  THEN <<(<<i, i_ahead - 1>>)>> \o LocalMaxima(x, i_ahead + 1)
                  ELSE LocalMaxima(x, i + 1)
         ELSE LocalMaxima(x, i + 1)

PlateauOKNoMin(size, min_time, period) == TRUE

\* keep a plateau iff plateau_size >= min_time * sample_rate
PlateauOK(size, min_time, period) == size * period >= min_time

RECURSIVE Select(_, _, _)
Select(peaks, min_time, period) ==
    IF peaks = <<>> THEN <<>>
    ELSE LET p == Head(peaks)
             rest == Select(Tail(peaks), min_time, period)
         IN  IF PlateauOK(p[2] - p[1] + 1, min_time, period)
             THEN <<p>> \o rest ELSE rest

\* _find_peaks(is_on, plateau_size=min_time * ts.get_sample_rate())[1]
find_peaks(x, min_time, period) ==
    LET kept == Select(LocalMaxima(x, 2), min_time, period)
    IN  [left_edges  |-> [k \in 1..Len(kept) |-> kept[k][1]],
         right_edges |-> [k \in 1..Len(kept) |-> kept[k][2]]]

(* ----------------------------- detect_phase ---------------------------- *)

ActivationStrict(signal, treshold, invert) ==
    [i \in 1..Len(signal) |->
        IF ~invert THEN (IF Gt(signal[i], treshold) THEN 1 ELSE 0)
        ELSE (IF ~signal[i].nan /\ ~treshold.nan /\ signal[i].val < treshold.val
              THEN 1 ELSE 0)]

\* is_on = signal > treshold, or signal <= treshold when invert
Activation(signal, treshold, invert) ==
    [i \in 1..Len(signal) |->
        IF ~invert THEN (IF Gt(signal[i], treshold) THEN 1 ELSE 0)
        ELSE (IF Le(signal[i], treshold) THEN 1 ELSE 0)]

ForceEdgesFirstOnly(is_on) == [is_on EXCEPT ![1] = 0]

\* is_on[0] = 0 ; is_on[-1] = 0
ForceEdges(is_on) == [is_on EXCEPT ![1] = 0, ![Len(is_on)] = 0]

SignalAfterAliased(signal, is_on) == [signal EXCEPT ![1] = Num(0), ![Len(signal)] = Num(0)]

\* the analysed signal after the call: is_on is a new array made by the
\* comparison, so forcing its edges does not write into ts.data[signal_name]
SignalAfter(signal, is_on) == signal

OutcomeValidating(d, signal_name, min_time) ==
    IF signal_name \notin DOMAIN d THEN "KeyError"
    ELSE IF min_time < 0 THEN "ValueError" ELSE "ok"

\* what the call raises: only the lookup ts.data[signal_name] can fail
Outcome(d, signal_name, min_time) ==
    IF signal_name \in DOMAIN d THEN "ok" ELSE "KeyError"

AddPhaseEventsLeftTwice(evts, t, ret, event_names) ==
    add_events(add_events(evts, t, ret.left_edges, event_names[1]),
               t, ret.left_edges, event_names[2])

\* the two loops: a begin event per left edge, then an end event per right edge
AddPhaseEvents(evts, t, ret, event_names) ==
    add_events(add_events(evts, t, ret.left_edges, event_names[1]),
               t, ret.right_edges, event_names[2])

EventsAfterNoSort(evts, t, ret, event_names) ==
    AddPhaseEvents(evts, t, ret, event_names)

\* the events of ts when the call returns: the loops, then ts.sort_events
EventsAfter(evts, t, ret, event_names) ==
    sort_events(AddPhaseEvents(evts, t, ret, event_names))

NoCall == [outcome |-> "none"]

detect_phase(signal_name, treshold, event_names, min_time, invert) ==
    /\ calls_left > 0
    /\ calls_left' = calls_left - 1
    /\ before' = events
    /\ UNCHANGED <<time, prior>>
    /\ IF Outcome(data, signal_name, min_time) = "ok"
       THEN LET signal == data[signal_name]
                is_on  == ForceEdges(Activation(signal, treshold, invert))
                ret    == find_peaks(is_on, min_time, GetPeriod(time))
                args   == [signal_name |-> signal_name, treshold |-> treshold,
                           event_names |-> event_names, min_time |-> min_time,
                           invert |-> invert]
            IN  /\ events' = EventsAfter(events, time, ret, event_names)
                /\ data' = [data EXCEPT ![signal_name] = SignalAfter(signal, is_on)]
                /\ last' = [outcome |-> "ok", args |-> args,
                            left_edges |-> ret.left_edges,
                            right_edges |-> ret.right_edges]
                /\ same_args' = (last.outcome = "ok" /\ last.args = args)
       ELSE /\ last' = [outcome |-> Outcome(data, signal_name, min_time)]
            /\ same_args' = FALSE
            /\ UNCHANGED <<events, data>>

(* ------------------------------- inputs -------------------------------- *)

SignalNames == {"Fz", "Mz"}

EventNames == {<<"begin", "end">>, <<"push", "release">>}

Signals(n) == [1..n -> Values]

Baseline(n) == [i \in 1..n |-> Num(0)]

\* event lists a series may hold before a call: none, one, two sorted by
\* time, two not sorted by time
PriorLists(t) ==
    LET sync  == Event(t[Len(t)], "sync")
        begin == Event(t[2], "begin")
    IN  {<<>>, <<begin>>, <<begin, sync>>, <<sync, begin>>}

\* the signal names the calls are made with: a signal of ts.data, or none
CalledNames == {"Fz", "missing"}

RepeatSignals ==
    {<<Num(0), Num(1), Num(0), Num(1), Num(0)>>,
     <<Num(1), Num(1), Num(0), Num(0), Num(1)>>,
     <<Num(0), NaN, Num(1), Num(1), Num(0)>>}

InitOnce ==
    /\ calls_left = 1
    /\ \E n \in 3..MaxLen, period \in Periods :
          /\ time = TimeAxis(n, period)
          /\ \E s \in Signals(n) : data = [k \in SignalNames |-> IF k = "Fz" THEN s ELSE Baseline(n)]
    /\ prior \in PriorLists(time)

InitRepeat ==
    /\ calls_left = MaxCalls
    /\ \E s \in RepeatSignals :
          /\ time = TimeAxis(Len(s), 1)
          /\ data = [k \in SignalNames |-> IF k = "Fz" THEN s ELSE Baseline(Len(s))]
    /\ prior \in {<<>>, <<Event(time[Len(time)], "sync"), Event(time[2], "begin")>>}

Init ==
    /\ InitOnce \/ InitRepeat
    /\ events = prior
    /\ before = prior
    /\ last = NoCall
    /\ same_args = FALSE

Next ==
    \E signal_name \in CalledNames, treshold \in Tresholds,
       event_names \in EventNames, min_time \in MinTimes, invert \in BOOLEAN :
        detect_phase(signal_name, treshold, event_names, min_time, invert)

Spec == Init /\ [][Next]_vars

(* ===================== vocabulary of the properties ==================== *)

N == Len(time)

Ok == last.outcome = "ok"

IsSorted(evts) == \A i, j \in DOMAIN evts : i < j => evts[i].time <= evts[j].time

Count(evts, e) == Cardinality({i \in DOMAIN evts : evts[i] = e})

\* how many copies of event e the last call added to the series
Added(e) == Count(events, e) - Count(before, e)

AnyNames == {"begin", "end", "push", "release", "sync"}

\* the activation predicate of the last call at sample i
Active(i) ==
    IF last.args.invert
    THEN Le(data[last.args.signal_name][i], last.args.treshold)
    ELSE Gt(data[last.args.signal_name][i], last.args.treshold)

\* activation once the first and the last sample are forced off
ActiveInside(i) == 1 < i /\ i < N /\ Active(i)

MaximalRuns(P(_)) ==
    {r \in (1..N) \X (1..N) :
        /\ r[1] <= r[2]
        /\ \A k \in r[1]..r[2] : P(k)
        /\ r[1] = 1 \/ ~P(r[1] - 1)
        /\ r[2] = N \/ ~P(r[2] + 1)}

\* the run has at least min_time * sample_rate samples
Qualifies(r) == (r[2] - r[1] + 1) * GetPeriod(time) >= last.args.min_time

StrictlyInside(r) == 1 < r[1] /\ r[2] < N

TouchesBoundary(r) == r[1] = 1 \/ r[2] = N

\* the last call added one begin event at the first sample and one end event
\* at the last sample of every run of R, and nothing else: 2 * |R| events in
\* all, none removed (the runs of R are disjoint and the two names differ, so
\* these are 2 * |R| different events)
AddedExactly(R) ==
    /\ \A r \in R :
          /\ Added(Event(time[r[1]], last.args.event_names[1])) = 1
          /\ Added(Event(time[r[2]], last.args.event_names[2])) = 1
    /\ Len(events) = Len(before) + 2 * Cardinality(R)
    /\ \A i \in DOMAIN before : Added(before[i]) >= 0

NothingAddedIn(r) ==
    \A k \in r[1]..r[2], nm \in AnyNames : Added(Event(time[k], nm)) = 0

QualifiedForcedRuns == {r \in MaximalRuns(ActiveInside) : Qualifies(r)}

QualifiedInteriorRawRuns ==
    {r \in MaximalRuns(Active) : StrictlyInside(r) /\ Qualifies(r)}

\* sample i lies inside the k-th begin/end pair of the edge lists
InsidePair(i, edges) ==
    \E k \in DOMAIN edges.left_edges :
        edges.left_edges[k] <= i /\ i <= edges.right_edges[k]

\* the edges a call with the same data and treshold, min_time = 0 and the
\* other value of invert reports
InvertedEdges ==
    find_peaks(ForceEdges(Activation(data[last.args.signal_name],
                                     last.args.treshold, ~last.args.invert)),
               0, GetPeriod(time))

(* ============================== properties ============================= *)

\* C1 (as stated in the specification): with min_time >= 0 the events a call
\* adds are exactly one begin and one end event per qualifying maximal run of
\* activated samples that does not include sample 0 or sample N-1.
C1_AddedForStrictlyInteriorRuns ==
    (Ok /\ last.args.min_time >= 0) => AddedExactly(QualifiedInteriorRawRuns)

\* C1 (amended): with min_time >= 0 the events a call adds are exactly one
\* begin event at the first sample and one end event at the last sample of
\* every maximal run of the activation sequence after its first and last
\* samples are forced off that has at least min_time * sample_rate samples,
\* begin time <= end time; separated runs give separate pairs; nothing else.
C1_AddedForForcedRuns ==
    (Ok /\ last.args.min_time >= 0) =>
        /\ AddedExactly(QualifiedForcedRuns)
        /\ \A k \in DOMAIN last.left_edges :
              time[last.left_edges[k]] <= time[last.right_edges[k]]
        /\ Len(last.left_edges) = Cardinality(QualifiedForcedRuns)

C1_Witness ==
    /\ Ok /\ last.args.min_time > 0
    /\ Cardinality(QualifiedForcedRuns) = 2
    /\ Len(events) = Len(before) + 4

\* C2 (as stated in the specification): a maximal run of activated samples
\* that includes sample 0 or sample N-1 gets no begin and no end event at any
\* of its samples (calls with min_time >= 0).
C2_BoundaryRunNeverReported ==
    (Ok /\ last.args.min_time >= 0) =>
        \A r \in MaximalRuns(Active) : TouchesBoundary(r) => NothingAddedIn(r)

\* C2 (amended): no event is added at sample 0 or sample N-1; a maximal run
\* of activated samples that includes sample 0 or N-1 is reported through its
\* other samples: when these are at least one and at least
\* min_time * sample_rate, a begin event is added at the first and an end
\* event at the last of them, otherwise no event is added in the run.
C2_BoundaryRunTrimmed ==
    Ok =>
        /\ \A nm \in AnyNames :
              Added(Event(time[1], nm)) = 0 /\ Added(Event(time[N], nm)) = 0
        /\ \A r \in MaximalRuns(Active) : TouchesBoundary(r) =>
              LET a == IF r[1] = 1 THEN 2 ELSE r[1]
                  b == IF r[2] = N THEN N - 1 ELSE r[2]
              IN  IF a <= b /\ Qualifies(<<a, b>>)
                  THEN /\ Added(Event(time[a], last.args.event_names[1])) = 1
                       /\ Added(Event(time[b], last.args.event_names[2])) = 1
                  ELSE NothingAddedIn(r)

C2_Witness ==
    /\ Ok
    /\ \E r \in MaximalRuns(Active) :
          /\ r[1] = 1 /\ r[2] > 2 /\ r[2] < N
          /\ Added(Event(time[2], last.args.event_names[1])) = 1
          /\ Added(Event(time[r[2]], last.args.event_names[2])) = 1

\* C3 (as stated in the specification): with min_time >= 0 every begin/end
\* pair a call adds satisfies end.time - begin.time >= min_time.
C3_PairLastsMinTime ==
    (Ok /\ last.args.min_time >= 0) =>
        \A k \in DOMAIN last.left_edges :
            time[last.right_edges[k]] - time[last.left_edges[k]] >= last.args.min_time

\* C3 (amended): with min_time >= 0 every begin/end pair a call adds spans at
\* least min_time * sample_rate samples, that is
\* end.time - begin.time + 1 / sample_rate >= min_time, and a run with fewer
\* samples gets no events.
C3_PairSpansMinSamples ==
    (Ok /\ last.args.min_time >= 0) =>
        /\ \A k \in DOMAIN last.left_edges :
              time[last.right_edges[k]] - time[last.left_edges[k]] + GetPeriod(time)
                  >= last.args.min_time
        /\ \A r \in MaximalRuns(ActiveInside) : ~Qualifies(r) => NothingAddedIn(r)

C3_Witness ==
    /\ Ok /\ last.args.min_time > 0
    /\ \E r \in MaximalRuns(ActiveInside) : ~Qualifies(r) /\ NothingAddedIn(r)
    /\ N >= 5

\* C4: the series the caller passed in holds after the call exactly the
\* events it held before the call (the new events are only in a copy), for
\* calls with min_time >= 0.
C4_InputSeriesUntouched == (Ok /\ last.args.min_time >= 0) => events = before

\* C5: after every call, and every sequence of calls on the same series, the
\* events of the returned series are sorted ascending by time, whatever the
\* order of the events that were in the series before.
C5_EventsSorted == Ok => IsSorted(events)

C5_Witness ==
    /\ Ok /\ calls_left = 0 /\ ~IsSorted(prior)
    /\ Len(last.left_edges) = 2
    /\ IsSorted(events)

C8_InvertComplement ==
    (Ok /\ last.args.min_time = 0) =>
        \A i \in 2..(N - 1) : InsidePair(i, last) <=> ~InsidePair(i, InvertedEdges)

\* C8 (amended): with min_time = 0 and a treshold that is a number, every
\* interior sample whose value is not NaN lies inside a begin/end pair
\* reported with invert = True iff it does not lie inside a pair reported
\* with invert = False; a NaN sample lies inside no pair of either call.
C8_InvertComplementOfNumbers ==
    (Ok /\ last.args.min_time = 0) =>
        \A i \in 2..(N - 1) :
            IF data[last.args.signal_name][i].nan
            THEN ~InsidePair(i, last) /\ ~InsidePair(i, InvertedEdges)
            ELSE InsidePair(i, last) <=> ~InsidePair(i, InvertedEdges)

C8_Witness ==
    /\ Ok /\ last.args.min_time = 0 /\ last.args.invert /\ N >= 5
    /\ \E i, j \in 2..(N - 1) :
          /\ InsidePair(i, last) /\ ~InsidePair(i, InvertedEdges)
          /\ ~InsidePair(j, last) /\ InsidePair(j, InvertedEdges)

\* C9 (as stated in the specification): if no run qualifies, so that the call
\* has no event to add, the events after the call are the same events in the
\* same order as before the call, whatever the order of the prior events
\* (calls with min_time >= 0).
C9_NoRunLeavesEventsAsTheyWere ==
    (Ok /\ last.args.min_time >= 0 /\ QualifiedForcedRuns = {}) => events = before

\* C9 (amended): if no run of the forced activation sequence has at least
\* min_time * sample_rate samples, no event is added or removed and the event
\* list is sorted ascending by time; it is the list as it was before the call
\* when that list was already sorted by time.
C9_NoRunOnlySorts ==
    (Ok /\ QualifiedForcedRuns = {}) =>
        /\ Len(events) = Len(before)
        /\ \A i \in DOMAIN before : Count(events, before[i]) = Count(before, before[i])
        /\ IsSorted(events)
        /\ IsSorted(before) => events = before

C9_Witness ==
    /\ Ok /\ QualifiedForcedRuns = {} /\ MaximalRuns(ActiveInside) # {}
    /\ ~IsSorted(before) /\ IsSorted(events) /\ Len(events) = 2

\* C10: a call changes no sample of any signal and no time of the time axis.
C10_DataUntouched == [][data' = data /\ time' = time]_vars

C10_Witness ==
    /\ Ok /\ Active(1) /\ Active(N)
    /\ data[last.args.signal_name][1] = Num(1)
    /\ Len(events) > Len(before)
====
